---- MODULE Spec2Model ----
(***************************************************************************)
(* The IPL 2025 Streamlit dashboard (src/app.py) as a state machine.       *)
(*                                                                         *)
(* A page run is the script executed top to bottom: load_data() (cached by *)
(* st.cache_data), the four navigation buttons, then the body of the       *)
(* selected section.  Every widget interaction starts a new page run.      *)
(*                                                                         *)
(* Encoding.  A cell is a sequence: <<>> is a missing cell (pandas NaN),   *)
(* <<v>> a present cell holding v.  A DataFrame is a record of its column  *)
(* set and its row sequence.  Team identifiers are positive integers, so   *)
(* that the sentinel 0 written by fillna(0) compares unequal to every team *)
(* (as "RCB" == 0 does in pandas).  The decimal columns OVR and ECO are    *)
(* held in tenths (15.3 overs is 153), so 15 and 16 overs are 150 and 160. *)
(***************************************************************************)
EXTENDS Integers, Sequences, FiniteSets, TLC

VARIABLES
    matches_csv,    \* what pd.read_csv("matches.csv") yields
    bowlers_csv,    \* what pd.read_csv("IPL2025Bowlers.csv") yields
    cache,          \* st.cache_data entry of load_data: <<>> or <<[matches, bowlers]>>
    ipl2025,        \* the run's match table (script global)
    bowlers,        \* the run's bowler table (script global)
    section,        \* the section selected by the buttons of this run
    pc,             \* position of the script: "start", "loaded", "done"
    top10_matches,  \* runs section
    eco,            \* bowling section
    death,          \* advanced section
    impact,         \* advanced section
    underrated,     \* advanced section
    excl,           \* the exclusion count k given to the standings calculator
    points,         \* standings calculator result
    win_rate        \* toss-advantage estimator result

vars == <<matches_csv, bowlers_csv, cache, ipl2025, bowlers, section, pc,
          top10_matches, eco, death, impact, underrated, excl, points, win_rate>>

outputs == <<top10_matches, eco, death, impact, underrated, excl, points, win_rate>>

----------------------------------------------------------------------------
(* Bounds of the model *)

MaxMatches == 3
MaxBowlers == 3
MaxLong == 11
MaxUnder == 7
MaxK == 4
MaxTieRows == 3

(* Constants of the program *)

TopMatchesLimit == 10
EcoLimit == 10
ImpactLimit == 10
UnderratedLimit == 5
DeathOvr == 150
ImpactOvr == 160
UnderMatHigh == 8
UnderMatLow == 3
FillValue == 0

----------------------------------------------------------------------------
(* Cells and frames *)

NaN == <<>>
Num(v) == <<v>>
IsNa(c) == c = NaN
Val(c) == c[1]

Min(a, b) == IF a < b THEN a ELSE b

DataFrame(cols, rows) == [columns |-> cols, rows |-> rows]

\* a script local that has not been assigned in this run
Unset == DataFrame({}, <<>>)
NoPoints == [t \in {} |-> 0]
NoRate == [raised |-> "unset", value |-> 0]

MatchCols == {"match_id", "team1", "team2", "toss_winner", "match_winner",
              "first_ings_score", "second_ings_score"}
BowlerCols == {"Player Name", "MAT", "OVR", "WKT", "ECO", "SR"}

\* NaN propagates through + as in pandas
Add(a, b) == IF IsNa(a) \/ IsNa(b) THEN NaN ELSE Num(Val(a) + Val(b))
\* a comparison with NaN is False
Gt(c, v) == ~IsNa(c) /\ Val(c) > v
Lt(c, v) == ~IsNa(c) /\ Val(c) < v

FillNa(df, value) ==
    DataFrame(df.columns,
              [i \in DOMAIN df.rows |->
                  [c \in df.columns |->
                      IF IsNa(df.rows[i][c]) THEN Num(value) ELSE df.rows[i][c]]])

\* the rows from i on whose mask entry is True, in table order
RECURSIVE Masked(_, _, _)
Masked(rows, mask, i) ==
    IF i > Len(rows) THEN <<>>
    ELSE (IF mask[i] THEN <<rows[i]>> ELSE <<>>) \o Masked(rows, mask, i + 1)

\* df[mask], mask being a boolean Series over the rows of df
Filter(df, mask) == DataFrame(df.columns, Masked(df.rows, mask, 1))

\* df.head(n)
HeadN(df, n) == DataFrame(df.columns, SubSeq(df.rows, 1, Min(n, Len(df.rows))))

\* The order in which numpy's argsort leaves equal keys is not defined for
\* the default kind="quicksort".  A tie order ranks the row positions: of two
\* rows with equal key the one of lower rank comes first.  TableOrder is the
\* outcome of a stable sort.  Every ranking is taken for a table of at most
\* MaxTieRows rows, table order and its reverse for a longer one.
TableOrder(n) == [i \in 1..n |-> i]
ReverseOrder(n) == [i \in 1..n |-> n + 1 - i]
TieOrders(n) ==
    IF n <= MaxTieRows
    THEN { f \in [1..n -> 1..n] : \A i, j \in 1..n : f[i] = f[j] => i = j }
    ELSE { TableOrder(n), ReverseOrder(n) }

Precedes(rows, by, ascending, tie, i, j) ==
    LET a == rows[i][by]
        b == rows[j][by]
    IN  IF IsNa(a) THEN IsNa(b) /\ i < j
        ELSE IF IsNa(b) THEN TRUE
        ELSE \/ IF ascending THEN Val(a) < Val(b) ELSE Val(a) > Val(b)
             \/ Val(a) = Val(b) /\ tie[i] < tie[j]

\* pandas.core.sorting.nargsort with na_position="last": the row index at
\* each output position
nargsort(rows, by, ascending, tie) ==
    LET n == Len(rows)
        rank == [i \in 1..n |->
                    Cardinality({j \in 1..n : Precedes(rows, by, ascending, tie, j, i)})]
    IN  [p \in 1..n |-> CHOOSE i \in 1..n : rank[i] = p - 1]

\* df.sort_values(by, ascending=...)
SortValues(df, by, ascending, tie) ==
    LET indexer == nargsort(df.rows, by, ascending, tie)
    IN  DataFrame(df.columns, [p \in 1..Len(df.rows) |-> df.rows[indexer[p]]])

----------------------------------------------------------------------------
(* load_data and the cache *)

\* variant: the bowler table is normalised too
load_data_fill_both(m, b) ==
    [matches |-> FillNa(m, FillValue), bowlers |-> FillNa(b, FillValue)]

\* the body of load_data
load_data(m, b) == [matches |-> FillNa(m, FillValue), bowlers |-> b]

\* variant: the caller is handed the cached object itself (st.cache_resource)
CacheByReference(entry, written) == written

\* st.cache_data hands every caller its own copy of the cached value, so a
\* write to the returned frame leaves the cache entry as it was
CacheAfterWrite(entry, written) == entry

----------------------------------------------------------------------------
(* Section bodies *)

\* variant: the first innings is added twice
WithTotalScoreFirstTwice(df) ==
    LET cols == df.columns \cup {"total_score"}
    IN  DataFrame(cols,
                  [i \in DOMAIN df.rows |->
                      [c \in cols |->
                          IF c = "total_score"
                          THEN Add(df.rows[i]["first_ings_score"],
                                   df.rows[i]["first_ings_score"])
                          ELSE df.rows[i][c]]])

\* ipl2025["total_score"] = ipl2025["first_ings_score"] + ipl2025["second_ings_score"]
WithTotalScore(df) ==
    LET cols == df.columns \cup {"total_score"}
    IN  DataFrame(cols,
                  [i \in DOMAIN df.rows |->
                      [c \in cols |->
                          IF c = "total_score"
                          THEN Add(df.rows[i]["first_ings_score"],
                                   df.rows[i]["second_ings_score"])
                          ELSE df.rows[i][c]]])

\* variant: the lowest totals first
Top10MatchesAscending(df, tie) ==
    HeadN(SortValues(df, "total_score", TRUE, tie), TopMatchesLimit)

Top10Matches(df, tie) == HeadN(SortValues(df, "total_score", FALSE, tie), TopMatchesLimit)

\* variant: the most expensive bowlers first
EcoDescending(df, tie) == HeadN(SortValues(df, "ECO", FALSE, tie), EcoLimit)

Eco(df, tie) == HeadN(SortValues(df, "ECO", TRUE, tie), EcoLimit)

\* variant: 15 overs included
DeathMaskInclusive(df) == [i \in DOMAIN df.rows |-> ~Lt(df.rows[i]["OVR"], DeathOvr)]

\* bowlers["OVR"] > 15
DeathMask(df) == [i \in DOMAIN df.rows |-> Gt(df.rows[i]["OVR"], DeathOvr)]
Death(df) == Filter(df, DeathMask(df))

\* bowlers["OVR"] < 16
ImpactMask(df) == [i \in DOMAIN df.rows |-> Lt(df.rows[i]["OVR"], ImpactOvr)]
\* variant: ranked by wickets before the cut
ImpactByWickets(df) ==
    LET kept == Filter(df, ImpactMask(df))
    IN  HeadN(SortValues(kept, "WKT", FALSE, TableOrder(Len(kept.rows))), ImpactLimit)

Impact(df) == HeadN(Filter(df, ImpactMask(df)), ImpactLimit)

\* variant: 8 matches included
UnderratedMaskInclusive(df) ==
    [i \in DOMAIN df.rows |->
        Lt(df.rows[i]["MAT"], UnderMatHigh + 1) /\ Gt(df.rows[i]["MAT"], UnderMatLow)]

\* (bowlers["MAT"] < 8) & (bowlers["MAT"] > 3)
UnderratedMask(df) ==
    [i \in DOMAIN df.rows |->
        Lt(df.rows[i]["MAT"], UnderMatHigh) /\ Gt(df.rows[i]["MAT"], UnderMatLow)]
Underrated(df, tie) ==
    HeadN(SortValues(Filter(df, UnderratedMask(df)), "ECO", TRUE, tie), UnderratedLimit)

----------------------------------------------------------------------------
(* Standings calculator and toss-advantage estimator *)

\* the records before the trailing k
DropLast(rows, k) == SubSeq(rows, 1, Len(rows) - k)

\* default-insert, then add
Award(p, t, n) ==
    [x \in DOMAIN p \cup {t} |->
        IF x = t THEN (IF t \in DOMAIN p THEN p[t] ELSE 0) + n ELSE p[x]]

\* variant: a match without a winner awards nothing
AwardMatchDecidedOnly(p, r) ==
    IF Val(r["match_winner"]) # 0
    THEN Award(p, Val(r["match_winner"]), 2)
    ELSE p

AwardMatch(p, r) ==
    IF Val(r["match_winner"]) # 0
    THEN Award(p, Val(r["match_winner"]), 2)
    ELSE Award(Award(p, Val(r["team1"]), 1), Val(r["team2"]), 1)

RECURSIVE StandingsFold(_, _)
StandingsFold(rows, p) ==
    IF rows = <<>> THEN p
    ELSE StandingsFold(Tail(rows), AwardMatch(p, Head(rows)))

Standings(df, k) == StandingsFold(DropLast(df.rows, k), NoPoints)

\* n / d rounded to the nearest integer, halves to the even neighbour
RoundHalfEven(n, d) ==
    LET q == n \div d
        r == n % d
    IN  IF 2 * r < d THEN q
        ELSE IF 2 * r > d THEN q + 1
        ELSE IF q % 2 = 0 THEN q ELSE q + 1

TossWon(r) == r["toss_winner"] = r["match_winner"]

HasWinner(r) == Val(r["match_winner"]) # 0

\* variant: matches without a winner are left out of the denominator, and
\* an empty denominator gives 0
TossAdvantageDecidedOnly(df) ==
    IF Len(SelectSeq(df.rows, HasWinner)) = 0
    THEN [raised |-> "none", value |-> 0]
    ELSE [raised |-> "none",
          value |-> RoundHalfEven(10000 * Len(SelectSeq(df.rows, TossWon)),
                                  Len(SelectSeq(df.rows, HasWinner)))]

\* the win rate in hundredths of a percent (two decimals of the percentage)
TossAdvantage(df) ==
    IF Len(df.rows) = 0
    THEN [raised |-> "EmptyInputError", value |-> 0]
    ELSE [raised |-> "none",
          value |-> RoundHalfEven(10000 * Len(SelectSeq(df.rows, TossWon)),
                                  Len(df.rows))]

----------------------------------------------------------------------------
(* Input files *)

\* fixtures rotate over three teams: 1 v 2, 1 v 3, 2 v 3
T1(i) == IF i % 3 = 0 THEN 2 ELSE 1
T2(i) == IF i % 3 = 1 THEN 2 ELSE 3

MatchRow(i, toss, win, f, s) ==
    [match_id |-> Num(i), team1 |-> Num(T1(i)), team2 |-> Num(T2(i)),
     toss_winner |-> toss, match_winner |-> win,
     first_ings_score |-> f, second_ings_score |-> s]

BowlerRow(i, mat, ovr, wkt, ec, sr) ==
    [c \in BowlerCols |->
        CASE c = "Player Name" -> Num(i)
          [] c = "MAT" -> Num(mat)
          [] c = "OVR" -> Num(ovr)
          [] c = "WKT" -> Num(wkt)
          [] c = "ECO" -> Num(ec)
          [] c = "SR" -> sr]

\* a match with its scores, its second innings or its result missing
ScoreChoices == { <<f, s>> : f \in {NaN, Num(1), Num(2)}, s \in {NaN, Num(1)} }
ScoreRow(i, ch) ==
    MatchRow(i, Num(T1(i)), IF IsNa(ch[2]) THEN NaN ELSE Num(T1(i)), ch[1], ch[2])

\* a long season whose totals are 2 or 3, so that totals tie around the cut
LongScoreRow(i, f) == MatchRow(i, Num(T1(i)), Num(T2(i)), Num(f), Num(1))

\* results and tosses
ResultChoices == { <<w, t>> : w \in {0, 1, 2}, t \in {1, 2} }
Side(i, n) == IF n = 1 THEN Num(T1(i)) ELSE Num(T2(i))
ResultRow(i, ch) ==
    MatchRow(i, Side(i, ch[2]), IF ch[1] = 0 THEN NaN ELSE Side(i, ch[1]),
             Num(2), Num(1))

DefaultMatches ==
    DataFrame(MatchCols,
              << MatchRow(1, Num(1), Num(2), Num(2), Num(1)),
                 MatchRow(2, Num(3), NaN, NaN, NaN) >>)

\* matches played, overs, economy; the strike rate may be missing
SmallBowlerChoices ==
    { <<3, 150, 61, NaN>>, <<4, 153, 70, Num(12)>>,
      <<7, 160, 55, Num(9)>>, <<8, 100, 61, NaN>> }
SmallBowlerRow(i, ch) == BowlerRow(i, ch[1], ch[2], i, ch[3], ch[4])

\* a long table of bowlers with few overs whose economies tie around the cut
EcoRow(i, ec) == BowlerRow(i, 5, 100, i, ec, Num(12))

\* a long table with more than ten bowlers below 16 overs (15.0 or 15.3),
\* later ones with more wickets, among bowlers with 16 overs
OvrRow(i, few) ==
    BowlerRow(i, 9, IF ~few THEN 160 ELSE IF i % 2 = 1 THEN 150 ELSE 153, i, 70, Num(12))

\* more than five bowlers with 3 < MAT < 8 among others with MAT 3 or 8
UnderChoices == { <<4, 61>>, <<7, 55>>, <<0, 50>> }
UnderRow(i, ch) ==
    BowlerRow(i, IF ch[1] # 0 THEN ch[1] ELSE IF i % 2 = 1 THEN 3 ELSE 8,
              100, i, ch[2], Num(12))

DefaultBowlers ==
    DataFrame(BowlerCols,
              << BowlerRow(1, 5, 153, 1, 61, Num(12)),
                 BowlerRow(2, 9, 400, 2, 55, NaN) >>)

----------------------------------------------------------------------------
(* The state machine *)

\* the process starts with the two files on disk and an empty cache
Start(m, b) ==
    /\ matches_csv = m
    /\ bowlers_csv = b
    /\ cache = <<>>
    /\ ipl2025 = Unset
    /\ bowlers = Unset
    /\ section = "none"
    /\ pc = "start"
    /\ top10_matches = Unset
    /\ eco = Unset
    /\ death = Unset
    /\ impact = Unset
    /\ underrated = Unset
    /\ excl = 0
    /\ points = NoPoints
    /\ win_rate = NoRate

InitScores ==
    \E k \in 0..MaxMatches : \E ch \in [1..k -> ScoreChoices] :
        Start(DataFrame(MatchCols, [i \in 1..k |-> ScoreRow(i, ch[i])]), DefaultBowlers)

InitSmallBowlers ==
    \E k \in 0..MaxBowlers : \E ch \in [1..k -> SmallBowlerChoices] :
        Start(DefaultMatches, DataFrame(BowlerCols, [i \in 1..k |-> SmallBowlerRow(i, ch[i])]))

InitLongScores ==
    \E k \in (MaxLong - 1)..MaxLong : \E ch \in [1..k -> {1, 2}] :
        Start(DataFrame(MatchCols, [i \in 1..k |-> LongScoreRow(i, ch[i])]), DefaultBowlers)

InitLongEco ==
    \E k \in (MaxLong - 1)..MaxLong : \E ch \in [1..k -> {55, 61}] :
        Start(DefaultMatches, DataFrame(BowlerCols, [i \in 1..k |-> EcoRow(i, ch[i])]))

InitLongOvr ==
    \E k \in {MaxLong + 1} : \E ch \in [1..k -> BOOLEAN] :
        Start(DefaultMatches, DataFrame(BowlerCols, [i \in 1..k |-> OvrRow(i, ch[i])]))

InitUnder ==
    \E k \in (MaxUnder - 1)..MaxUnder : \E ch \in [1..k -> UnderChoices] :
        Start(DefaultMatches, DataFrame(BowlerCols, [i \in 1..k |-> UnderRow(i, ch[i])]))

InitResults ==
    \E k \in 0..MaxMatches : \E ch \in [1..k -> ResultChoices] :
        Start(DataFrame(MatchCols, [i \in 1..k |-> ResultRow(i, ch[i])]), DefaultBowlers)

Init == InitScores \/ InitSmallBowlers

InitRank == InitSmallBowlers \/ InitLongScores \/ InitLongEco \/ InitLongOvr \/ InitUnder

InitLeague == InitResults

\* a page run starts: the script's names are fresh and load_data() is called
LoadData ==
    /\ pc \in {"start", "done"}
    /\ LET entry == IF cache = <<>> THEN load_data(matches_csv, bowlers_csv)
                    ELSE cache[1]
       IN  /\ cache' = <<entry>>
           /\ ipl2025' = entry.matches
           /\ bowlers' = entry.bowlers
    /\ section' = "none"
    /\ pc' = "loaded"
    /\ top10_matches' = Unset
    /\ eco' = Unset
    /\ death' = Unset
    /\ impact' = Unset
    /\ underrated' = Unset
    /\ excl' = 0
    /\ points' = NoPoints
    /\ win_rate' = NoRate
    /\ UNCHANGED <<matches_csv, bowlers_csv>>

\* no button was pressed in this run
NoSection ==
    /\ pc = "loaded"
    /\ pc' = "done"
    /\ UNCHANGED <<matches_csv, bowlers_csv, cache, ipl2025, bowlers, section, outputs>>

DatasetSection ==
    /\ pc = "loaded"
    /\ section' = "dataset"
    /\ pc' = "done"
    /\ UNCHANGED <<matches_csv, bowlers_csv, cache, ipl2025, bowlers, outputs>>

RunsSection ==
    /\ pc = "loaded"
    /\ section' = "runs"
    /\ \E tie \in TieOrders(Len(ipl2025.rows)) :
          LET df == WithTotalScore(ipl2025)
          IN  /\ ipl2025' = df
              /\ cache' = <<CacheAfterWrite(cache[1], [matches |-> df, bowlers |-> bowlers])>>
              /\ top10_matches' = Top10Matches(df, tie)
    /\ pc' = "done"
    /\ UNCHANGED <<matches_csv, bowlers_csv, bowlers, eco, death, impact, underrated,
                   excl, points, win_rate>>

BowlingSection ==
    /\ pc = "loaded"
    /\ section' = "bowling"
    /\ \E tie \in TieOrders(Len(bowlers.rows)) : eco' = Eco(bowlers, tie)
    /\ pc' = "done"
    /\ UNCHANGED <<matches_csv, bowlers_csv, cache, ipl2025, bowlers, top10_matches,
                   death, impact, underrated, excl, points, win_rate>>

AdvancedSection ==
    /\ pc = "loaded"
    /\ section' = "advanced"
    /\ death' = Death(bowlers)
    /\ impact' = Impact(bowlers)
    /\ \E tie \in TieOrders(Len(Filter(bowlers, UnderratedMask(bowlers)).rows)) :
          underrated' = Underrated(bowlers, tie)
    /\ pc' = "done"
    /\ UNCHANGED <<matches_csv, bowlers_csv, cache, ipl2025, bowlers, top10_matches,
                   eco, excl, points, win_rate>>

StandingsSection ==
    /\ pc = "loaded"
    /\ section' = "standings"
    /\ \E k \in 0..MaxK : excl' = k /\ points' = Standings(ipl2025, k)
    /\ pc' = "done"
    /\ UNCHANGED <<matches_csv, bowlers_csv, cache, ipl2025, bowlers, top10_matches,
                   eco, death, impact, underrated, win_rate>>

TossSection ==
    /\ pc = "loaded"
    /\ section' = "toss"
    /\ win_rate' = TossAdvantage(ipl2025)
    /\ pc' = "done"
    /\ UNCHANGED <<matches_csv, bowlers_csv, cache, ipl2025, bowlers, top10_matches,
                   eco, death, impact, underrated, excl, points>>

Next ==
    \/ LoadData
    \/ NoSection
    \/ DatasetSection
    \/ RunsSection
    \/ BowlingSection
    \/ AdvancedSection

NextLeague ==
    \/ LoadData
    \/ StandingsSection
    \/ TossSection

Spec == Init /\ [][Next]_vars
SpecRank == InitRank /\ [][Next]_vars
SpecLeague == InitLeague /\ [][NextLeague]_vars

----------------------------------------------------------------------------
(* Properties *)

Ran(name) == pc = "done" /\ section = name

\* the source cell as fillna(0) leaves it
Normalized(c) == IF c = <<>> THEN <<0>> ELSE c

(* C1: after the runs section every record of the match table carries      *)
(* total_score = first_ings_score + second_ings_score of that record, the  *)
(* two scores being those of the source with missing ones read as 0, and   *)
(* total_score >= 0.                                                       *)
C1_TotalScore ==
    Ran("runs") =>
        /\ Len(ipl2025.rows) = Len(matches_csv.rows)
        /\ \A i \in DOMAIN ipl2025.rows :
              LET r == ipl2025.rows[i]
                  src == matches_csv.rows[i]
              IN  /\ r["first_ings_score"] = Normalized(src["first_ings_score"])
                  /\ r["second_ings_score"] = Normalized(src["second_ings_score"])
                  /\ Len(r["total_score"]) = 1
                  /\ r["total_score"][1]
                       = r["first_ings_score"][1] + r["second_ings_score"][1]
                  /\ r["total_score"][1] >= 0

\* the runs section has run on a table with a missing score and a full record
C1_Witness ==
    /\ Ran("runs")
    /\ \E i \in DOMAIN matches_csv.rows : matches_csv.rows[i]["first_ings_score"] = <<>>
    /\ \E i \in DOMAIN ipl2025.rows : ipl2025.rows[i]["total_score"] = <<3>>

(* C3 as stated: no section changes the columns or cells of the match      *)
(* table that load_data returned to the run.                               *)
C3_TableUnchangedByRun ==
    [][pc = "loaded" => ipl2025' = ipl2025]_vars

(* C3 as amended: the cached table is never changed by a run and every run *)
(* starts from a copy of it without total_score; the dataset, bowling,     *)
(* advanced and no-section paths leave the run's table as loaded, and the  *)
(* runs section adds the column total_score to the run's copy and changes  *)
(* no other column, row or cell.                                           *)
C3_CacheReadOnly ==
    [][ /\ pc = "loaded" => cache' = cache
        /\ (pc = "loaded" /\ section' # "runs") => ipl2025' = ipl2025
        /\ (pc = "loaded" /\ section' = "runs") =>
              /\ ipl2025'.columns = ipl2025.columns \cup {"total_score"}
              /\ Len(ipl2025'.rows) = Len(ipl2025.rows)
              /\ \A i \in DOMAIN ipl2025.rows : \A c \in ipl2025.columns :
                    ipl2025'.rows[i][c] = ipl2025.rows[i][c]
        /\ pc' = "loaded" =>
              /\ ipl2025' = cache'[1].matches
              /\ ipl2025'.columns = matches_csv.columns
              /\ (cache # <<>> => cache' = cache) ]_vars

\* the runs section has added total_score to the run's non-empty table and
\* the cached table has no such column
C3_Witness ==
    /\ Ran("runs")
    /\ Len(ipl2025.rows) > 0
    /\ "total_score" \in ipl2025.columns
    /\ "total_score" \notin cache[1].matches.columns

(* C8: after load_data every match cell that was missing in the source     *)
(* holds 0 and every other match cell is unchanged, and the bowler table   *)
(* is the parsed table, a missing bowler cell still missing.               *)
C8_LoadNormalizesMatchesOnly ==
    pc = "loaded" =>
        /\ ipl2025.columns = matches_csv.columns
        /\ Len(ipl2025.rows) = Len(matches_csv.rows)
        /\ \A i \in DOMAIN matches_csv.rows : \A c \in matches_csv.columns :
              ipl2025.rows[i][c] = Normalized(matches_csv.rows[i][c])
        /\ bowlers = bowlers_csv

\* load_data has returned tables whose sources had a missing match cell, a
\* present match cell and a missing bowler cell
C8_Witness ==
    /\ pc = "loaded"
    /\ \E i \in DOMAIN matches_csv.rows :
          /\ matches_csv.rows[i]["second_ings_score"] = <<>>
          /\ ipl2025.rows[i]["second_ings_score"] = <<0>>
          /\ ipl2025.rows[i]["first_ings_score"] = <<2>>
    /\ \E i \in DOMAIN bowlers.rows : bowlers.rows[i]["SR"] = <<>>

----------------------------------------------------------------------------
(* Leaderboards.  A row of the bowler table is identified by its Player    *)
(* Name and a row of the match table by its match_id, which in the input   *)
(* tables are the row's position.                                          *)

BowlerAt(df, p) == df.rows[p]["Player Name"][1]
MatchAt(df, p) == df.rows[p]["match_id"][1]
EcoOf(r) == r["ECO"][1]
Least(a, b) == IF a < b THEN a ELSE b

(* C4: the economy leaderboard filters nothing and holds exactly           *)
(* min(10, number of bowlers) distinct bowler records in non-decreasing    *)
(* ECO, every bowler left out having an ECO at least that of every bowler  *)
(* listed; economies 6.1, 7.0, 5.5 of X, Y, Z list Z then X first.         *)
C4_EcoTop10 ==
    Ran("bowling") =>
        LET n == Len(bowlers.rows)
            m == Len(eco.rows)
        IN  /\ eco.columns = bowlers.columns
            /\ m = Least(10, n)
            /\ \A p \in 1..m :
                  /\ BowlerAt(eco, p) \in 1..n
                  /\ eco.rows[p] = bowlers.rows[BowlerAt(eco, p)]
            /\ \A p, q \in 1..m :
                  p < q => /\ BowlerAt(eco, p) # BowlerAt(eco, q)
                           /\ EcoOf(eco.rows[p]) <= EcoOf(eco.rows[q])
            /\ \A i \in 1..n :
                  (\A p \in 1..m : BowlerAt(eco, p) # i) =>
                      \A p \in 1..m : EcoOf(bowlers.rows[i]) >= EcoOf(eco.rows[p])
            /\ [i \in 1..n |-> EcoOf(bowlers.rows[i])] = <<61, 70, 55>> =>
                  BowlerAt(eco, 1) = 3 /\ BowlerAt(eco, 2) = 1

\* the bowling section has run on more than ten bowlers and left out one
\* whose economy is strictly higher than a listed one
C4_Witness ==
    /\ Ran("bowling")
    /\ Len(bowlers.rows) > 10
    /\ Len(eco.rows) = 10
    /\ \E i \in DOMAIN bowlers.rows :
          /\ \A p \in DOMAIN eco.rows : BowlerAt(eco, p) # i
          /\ EcoOf(bowlers.rows[i]) > EcoOf(eco.rows[1])

\* the bowlers with 3 < MAT < 8
C5_Candidates == { i \in DOMAIN bowlers.rows : bowlers.rows[i]["MAT"][1] \in 4..7 }

(* C5: the underrated selection holds only bowlers with 3 < MAT < 8, in    *)
(* non-decreasing ECO, exactly min(5, number of such bowlers) of them, no  *)
(* such bowler left out having a strictly lower ECO than a listed one; it  *)
(* is empty when there is no such bowler.                                  *)
C5_UnderratedTop5 ==
    Ran("advanced") =>
        LET m == Len(underrated.rows)
        IN  /\ underrated.columns = bowlers.columns
            /\ m = Least(5, Cardinality(C5_Candidates))
            /\ \A p \in 1..m :
                  /\ BowlerAt(underrated, p) \in C5_Candidates
                  /\ underrated.rows[p] = bowlers.rows[BowlerAt(underrated, p)]
                  /\ underrated.rows[p]["MAT"][1] > 3
                  /\ underrated.rows[p]["MAT"][1] < 8
            /\ \A p, q \in 1..m :
                  p < q => /\ BowlerAt(underrated, p) # BowlerAt(underrated, q)
                           /\ EcoOf(underrated.rows[p]) <= EcoOf(underrated.rows[q])
            /\ \A i \in C5_Candidates :
                  (\A p \in 1..m : BowlerAt(underrated, p) # i) =>
                      \A p \in 1..m :
                          ~(EcoOf(bowlers.rows[i]) < EcoOf(underrated.rows[p]))
            /\ C5_Candidates = {} => underrated.rows = <<>>

\* the advanced section has run on more than five bowlers in range and on a
\* bowler with MAT 3 or 8 whose economy is lower than every listed one
C5_Witness ==
    /\ Ran("advanced")
    /\ Cardinality(C5_Candidates) > 5
    /\ Len(underrated.rows) = 5
    /\ \E i \in DOMAIN bowlers.rows :
          /\ bowlers.rows[i]["MAT"][1] \in {3, 8}
          /\ \A p \in DOMAIN underrated.rows :
                EcoOf(bowlers.rows[i]) < EcoOf(underrated.rows[p])

\* the bowlers with fewer than 16 overs
C6_Candidates == { i \in DOMAIN bowlers.rows : bowlers.rows[i]["OVR"][1] < 160 }

(* C6: the impact selection is the first min(10, count) bowlers with       *)
(* OVR < 16 in table order, whatever their wickets.                        *)
C6_ImpactFirst10 ==
    Ran("advanced") =>
        LET m == Len(impact.rows)
        IN  /\ impact.columns = bowlers.columns
            /\ m = Least(10, Cardinality(C6_Candidates))
            /\ \A p \in 1..m :
                  /\ BowlerAt(impact, p) \in C6_Candidates
                  /\ impact.rows[p] = bowlers.rows[BowlerAt(impact, p)]
                  /\ Cardinality({ j \in C6_Candidates : j < BowlerAt(impact, p) }) = p - 1

\* more than ten bowlers have fewer than 16 overs, some bowler has 16, and
\* a bowler left out has more wickets than every bowler listed
C6_Witness ==
    /\ Ran("advanced")
    /\ Cardinality(C6_Candidates) > 10
    /\ \E i \in DOMAIN bowlers.rows : i \notin C6_Candidates /\ i < BowlerAt(impact, 10)
    /\ \E i \in C6_Candidates :
          /\ \A p \in DOMAIN impact.rows : BowlerAt(impact, p) # i
          /\ \A p \in DOMAIN impact.rows :
                bowlers.rows[i]["WKT"][1] > impact.rows[p]["WKT"][1]

\* the bowlers with more than 15 overs
C7_Candidates == { i \in DOMAIN bowlers.rows : bowlers.rows[i]["OVR"][1] > 150 }

(* C7: the death-overs subset is every bowler with OVR > 15, and no other, *)
(* in table order, however many they are.                                  *)
C7_DeathAll ==
    Ran("advanced") =>
        /\ death.columns = bowlers.columns
        /\ Len(death.rows) = Cardinality(C7_Candidates)
        /\ \A p \in DOMAIN death.rows :
              /\ BowlerAt(death, p) \in C7_Candidates
              /\ death.rows[p] = bowlers.rows[BowlerAt(death, p)]
              /\ Cardinality({ j \in C7_Candidates : j < BowlerAt(death, p) }) = p - 1

\* more than ten bowlers are in the subset and a bowler with exactly 15
\* overs is not
C7_Witness ==
    /\ Ran("advanced")
    /\ Len(death.rows) > 10
    /\ \E i \in DOMAIN bowlers.rows :
          /\ bowlers.rows[i]["OVR"] = <<150>>
          /\ \A p \in DOMAIN death.rows : BowlerAt(death, p) # i

TotalOf(r) == r["total_score"][1]

(* C2 as stated: every sorted leaderboard breaks ties by table order: of   *)
(* two listed records with equal key the one earlier in the table comes    *)
(* first, and a candidate left out never precedes in the table a listed    *)
(* record of the same key.                                                 *)
C2_TiesInTableOrder ==
    /\ Ran("bowling") =>
          /\ \A p, q \in DOMAIN eco.rows :
                (p < q /\ EcoOf(eco.rows[p]) = EcoOf(eco.rows[q])) =>
                    BowlerAt(eco, p) < BowlerAt(eco, q)
          /\ \A i \in DOMAIN bowlers.rows : \A p \in DOMAIN eco.rows :
                ( /\ \A q \in DOMAIN eco.rows : BowlerAt(eco, q) # i
                  /\ EcoOf(bowlers.rows[i]) = EcoOf(eco.rows[p]) ) =>
                    BowlerAt(eco, p) < i
    /\ Ran("advanced") =>
          /\ \A p, q \in DOMAIN underrated.rows :
                (p < q /\ EcoOf(underrated.rows[p]) = EcoOf(underrated.rows[q])) =>
                    BowlerAt(underrated, p) < BowlerAt(underrated, q)
          /\ \A i \in C5_Candidates : \A p \in DOMAIN underrated.rows :
                ( /\ \A q \in DOMAIN underrated.rows : BowlerAt(underrated, q) # i
                  /\ EcoOf(bowlers.rows[i]) = EcoOf(underrated.rows[p]) ) =>
                    BowlerAt(underrated, p) < i
    /\ Ran("runs") =>
          /\ \A p, q \in DOMAIN top10_matches.rows :
                (p < q /\ TotalOf(top10_matches.rows[p]) = TotalOf(top10_matches.rows[q])) =>
                    MatchAt(top10_matches, p) < MatchAt(top10_matches, q)
          /\ \A i \in DOMAIN ipl2025.rows : \A p \in DOMAIN top10_matches.rows :
                ( /\ \A q \in DOMAIN top10_matches.rows : MatchAt(top10_matches, q) # i
                  /\ TotalOf(ipl2025.rows[i]) = TotalOf(top10_matches.rows[p]) ) =>
                    MatchAt(top10_matches, p) < i

(* C2 as amended: every sorted leaderboard is ordered by its key and keeps *)
(* the N candidates with the best keys (ECO non-decreasing for the economy *)
(* top 10 and the underrated top 5, total_score non-increasing for the top *)
(* 10 matches; no candidate left out has a better key than a listed one);  *)
(* the order of records with equal key, and which of them is kept at the   *)
(* cut, is not fixed by table order.                                       *)
C2_OrderedByKeyOnly ==
    /\ Ran("bowling") =>
          /\ Len(eco.rows) = Least(10, Len(bowlers.rows))
          /\ \A p \in DOMAIN eco.rows : eco.rows[p] = bowlers.rows[BowlerAt(eco, p)]
          /\ \A p, q \in DOMAIN eco.rows :
                p < q => /\ EcoOf(eco.rows[p]) <= EcoOf(eco.rows[q])
                         /\ BowlerAt(eco, p) # BowlerAt(eco, q)
          /\ \A i \in DOMAIN bowlers.rows : \A p \in DOMAIN eco.rows :
                (\A q \in DOMAIN eco.rows : BowlerAt(eco, q) # i) =>
                    EcoOf(bowlers.rows[i]) >= EcoOf(eco.rows[p])
    /\ Ran("advanced") =>
          /\ Len(underrated.rows) = Least(5, Cardinality(C5_Candidates))
          /\ \A p \in DOMAIN underrated.rows :
                /\ BowlerAt(underrated, p) \in C5_Candidates
                /\ underrated.rows[p] = bowlers.rows[BowlerAt(underrated, p)]
          /\ \A p, q \in DOMAIN underrated.rows :
                p < q => /\ EcoOf(underrated.rows[p]) <= EcoOf(underrated.rows[q])
                         /\ BowlerAt(underrated, p) # BowlerAt(underrated, q)
          /\ \A i \in C5_Candidates : \A p \in DOMAIN underrated.rows :
                (\A q \in DOMAIN underrated.rows : BowlerAt(underrated, q) # i) =>
                    EcoOf(bowlers.rows[i]) >= EcoOf(underrated.rows[p])
    /\ Ran("runs") =>
          /\ Len(top10_matches.rows) = Least(10, Len(ipl2025.rows))
          /\ \A p \in DOMAIN top10_matches.rows :
                top10_matches.rows[p] = ipl2025.rows[MatchAt(top10_matches, p)]
          /\ \A p, q \in DOMAIN top10_matches.rows :
                p < q => /\ TotalOf(top10_matches.rows[p]) >= TotalOf(top10_matches.rows[q])
                         /\ MatchAt(top10_matches, p) # MatchAt(top10_matches, q)
          /\ \A i \in DOMAIN ipl2025.rows : \A p \in DOMAIN top10_matches.rows :
                (\A q \in DOMAIN top10_matches.rows : MatchAt(top10_matches, q) # i) =>
                    TotalOf(ipl2025.rows[i]) <= TotalOf(top10_matches.rows[p])

\* the top 10 matches were cut from more than ten, a match left out ties on
\* total_score with a listed match that comes later in the table, and two
\* listed matches of equal total are not in table order
C2_Witness ==
    /\ Ran("runs")
    /\ Len(ipl2025.rows) > 10
    /\ \E i \in DOMAIN ipl2025.rows : \E p \in DOMAIN top10_matches.rows :
          /\ \A q \in DOMAIN top10_matches.rows : MatchAt(top10_matches, q) # i
          /\ TotalOf(ipl2025.rows[i]) = TotalOf(top10_matches.rows[p])
          /\ i < MatchAt(top10_matches, p)
    /\ \E p, q \in DOMAIN top10_matches.rows :
          /\ p < q
          /\ TotalOf(top10_matches.rows[p]) = TotalOf(top10_matches.rows[q])
          /\ MatchAt(top10_matches, p) > MatchAt(top10_matches, q)

----------------------------------------------------------------------------
(* Standings and toss advantage *)

WinnerOf(i) == ipl2025.rows[i]["match_winner"][1]
SidesOf(i) == { ipl2025.rows[i]["team1"][1], ipl2025.rows[i]["team2"][1] }

\* the records that are not among the trailing excl
C9_Counted == { i \in DOMAIN ipl2025.rows : i <= Len(ipl2025.rows) - excl }

RECURSIVE C9_Sum(_, _)
C9_Sum(f, S) ==
    IF S = {} THEN 0
    ELSE LET t == CHOOSE x \in S : TRUE IN f[t] + C9_Sum(f, S \ {t})

(* C9: the points of the standings sum to 2 per counted record, each team  *)
(* has 2 per counted win and 1 per counted match without winner it played  *)
(* in, the mapping holds exactly the teams that received points, and it is *)
(* empty when the exclusion count is at least the record count.            *)
C9_TwoPointsPerMatch ==
    Ran("standings") =>
        /\ C9_Sum(points, DOMAIN points) = 2 * Cardinality(C9_Counted)
        /\ DOMAIN points =
              { WinnerOf(i) : i \in { j \in C9_Counted : WinnerOf(j) # 0 } }
              \cup UNION { SidesOf(i) : i \in { j \in C9_Counted : WinnerOf(j) = 0 } }
        /\ \A t \in DOMAIN points :
              points[t] = 2 * Cardinality({ i \in C9_Counted : WinnerOf(i) = t })
                          + Cardinality({ i \in C9_Counted :
                                            WinnerOf(i) = 0 /\ t \in SidesOf(i) })
        /\ excl >= Len(ipl2025.rows) => DOMAIN points = {}

\* three matches, none excluded: team 1 won two and teams 2 and 3 shared
\* the third, giving 4, 1 and 1 points
C9_Witness ==
    /\ Ran("standings")
    /\ excl = 0
    /\ [i \in DOMAIN ipl2025.rows |-> WinnerOf(i)] = <<1, 1, 0>>
    /\ DOMAIN points = {1, 2, 3}
    /\ points[1] = 4 /\ points[2] = 1 /\ points[3] = 1

\* the matches whose toss winner is the match winner
C10_Won ==
    { i \in DOMAIN ipl2025.rows :
        ipl2025.rows[i]["toss_winner"] = ipl2025.rows[i]["match_winner"] }

C10_Abs(x) == IF x < 0 THEN -x ELSE x

(* C10: on a non-empty table the win rate is the share of matches whose    *)
(* toss winner is the match winner among all matches, those without winner *)
(* included, as a percentage to two decimals: between 0 and 100, and 100   *)
(* when every toss winner won; on an empty table EmptyInputError is raised.*)
C10_TossRate ==
    Ran("toss") =>
        LET n == Len(ipl2025.rows)
        IN  /\ n = 0 => win_rate.raised = "EmptyInputError"
            /\ n > 0 =>
                  /\ win_rate.raised = "none"
                  /\ win_rate.value >= 0
                  /\ win_rate.value <= 10000
                  /\ 2 * C10_Abs(win_rate.value * n - 10000 * Cardinality(C10_Won)) <= n
                  /\ Cardinality(C10_Won) = n => win_rate.value = 10000
                  /\ \A i \in C10_Won : WinnerOf(i) # 0

\* one of three matches went to the toss winner and one had no winner: the
\* rate is 33.33
C10_Witness ==
    /\ Ran("toss")
    /\ Len(ipl2025.rows) = 3
    /\ \E i \in DOMAIN ipl2025.rows : WinnerOf(i) = 0
    /\ Cardinality(C10_Won) = 1
    /\ win_rate = [raised |-> "none", value |-> 3333]

====
